---------------------------- MODULE Spec2Model ----------------------------
(***************************************************************************)
(* Model of ContentFilter (src/models/content_filter.py): the sensitive    *)
(* word set, the ordered pattern dict, the tokenization cache and the      *)
(* operations check_content, add/remove_sensitive_words, add/remove_pattern*)
(* and clear_cache.                                                        *)
(*                                                                         *)
(* Text is a sequence of one-character strings.  The alphabet is small:    *)
(* "a", "b" are letters, "1", "3" digits and " " is whitespace.  Regular   *)
(* expressions are modelled by a small pattern class (a fixed sequence of  *)
(* character classes, negative look-behind/look-ahead sets, capture group  *)
(* spans) and re.findall is computed on it; the built-in rules are scaled  *)
(* down to that class (shorter digit runs), keeping their group structure. *)
(***************************************************************************)
EXTENDS Integers, Sequences, FiniteSets, TLC

VARIABLES
    sensitive_words,   \* self.sensitive_words : set of words
    patterns,          \* self.patterns : insertion-ordered dict, as a sequence of [name, src]
    word_cache,        \* self.word_cache : dict text -> token list
    last,              \* the last call the observed caller completed: operation, arguments, return value, log line
    pc,                \* in-flight check_content of the concurrent caller: position in the method
    cur,               \* in-flight check_content: its locals (text, words, loop indices, reasons)
    snaps,             \* registry states (sensitive_words, patterns) that existed during the in-flight call
    muts,              \* number of registry mutations made by other callers in the concurrent specification
    batch,             \* in-flight check_batch of the concurrent caller: its texts and the results so far
    roundtrip          \* history: an add_sensitive_words([X]) call and the remove_sensitive_words([X]), or the check_content of a cached text, right after it

vars == <<sensitive_words, patterns, word_cache, last, pc, cur, snaps, muts, roundtrip, batch>>

-----------------------------------------------------------------------------
(* Bounds and constants *)

\* longest list handed to add_sensitive_words / remove_sensitive_words
MaxWords == 2

\* registry mutations by other callers in one behaviour of the concurrent specification
MaxMut == 2

\* the longest batch
MaxBatch == 2

\* the longest JSON array and the most lines of a vocabulary file
MaxItems == 3

\* the minimum length of check_content: len(text) < 5
MinLength == 5

-----------------------------------------------------------------------------
(* Inputs *)

Digits == {"1", "3"}

Space == " "

\* a Python object handed to check_content: a str (its characters in s) or not
StrIn(s) == [type |-> "str", s |-> s]

NoneIn == [type |-> "NoneType", s |-> <<>>]

\* a truthy object that is not a str (the integer 1)
IntIn == [type |-> "int", s |-> <<"1">>]

\* the strings screened: whitespace only, of the minimum length; a short text
\* with a repeated word; a text of the minimum length holding "ab" and a digit run
ValidTexts ==
    { <<" ", " ", " ", " ", " ">>,
      <<"a", " ", "a">>,
      <<"a", "b", " ", "1", "3">> }

TextInputs == {StrIn(s) : s \in ValidTexts} \cup {StrIn(<<>>), NoneIn, IntIn}

\* the texts of the in-flight call when other callers run meanwhile: the
\* two texts that hold words and pattern matches, and the rejected inputs
ConcTextInputs == TextInputs \ {StrIn(<<" ", " ", " ", " ", " ">>)}

\* the words that callers add and remove
WordUniverse == { <<"a">>, <<"a", "b">> }

\* default_words of _load_sensitive_words, in the model's alphabet
DefaultWords == { <<"a">> }

\* the lists of words handed to add/remove: every sequence, duplicates included
WordLists == UNION { [1..n -> WordUniverse] : n \in 0..MaxWords }

\* the items of a batch, and the batches
BatchItems ==
    {NoneIn, StrIn(<<"a", "b", " ", "1", "3">>), StrIn(<<" ", " ", " ", " ", " ">>)}

BatchLists == UNION { [1..n -> BatchItems] : n \in 0..MaxBatch }

\* bool(x) of Python
Truthy(x) == IF x.type = "str" THEN x.s # <<>> ELSE x.type = "int"

-----------------------------------------------------------------------------
(* Regular expressions *)

NoGroups == <<>>

\* a compiled pattern: ok = re.compile accepts the source; a match is Len(atoms)
\* characters, the k-th in atoms[k], not preceded by a character of lb nor
\* followed by one of la; groups are the capture groups, as spans of the match
Pat(ok, atoms, lb, la, groups) ==
    [ok |-> ok, atoms |-> atoms, lb |-> lb, la |-> la, groups |-> groups]

\* re.compile(pattern): the pattern sources of the model
Compile(src) ==
    CASE src = "phone"    -> Pat(TRUE, <<{"1"}, {"3"}>>, Digits, Digits, NoGroups)
      [] src = "idcard"   -> Pat(TRUE, <<Digits, Digits, Digits>>, Digits, Digits, << <<1, 3>> >>)
      [] src = "url"      -> Pat(TRUE, <<{"w"}, {"."}>>, {}, {}, << <<1, 2>> >>)
      [] src = "email"    -> Pat(TRUE, <<{"a", "b"}, {"@"}, {"a", "b"}>>, {}, {}, NoGroups)
      [] src = "bankcard" -> Pat(TRUE, <<{"6"}, {"2"}, Digits>>, Digits, Digits, << <<1, 3>> >>)
      [] src = "a"        -> Pat(TRUE, <<{"a"}>>, {}, {}, NoGroups)
      [] src = "a(b)"     -> Pat(TRUE, <<{"a"}, {"b"}>>, {}, {}, << <<2, 2>> >>)
      [] src = "(unclosed" -> Pat(FALSE, <<>>, {}, {}, NoGroups)

\* the pattern sources callers hand to add_pattern
PatternSources == {"a", "a(b)", "(unclosed"}

\* the rule names callers add and remove: a built-in one and a new one
RuleNames == {"phone", "r1"}

Entry(name, src) == [name |-> name, src |-> src]

\* self.patterns as built by __init__
BuiltinPatterns ==
    << Entry("phone", "phone"), Entry("idcard", "idcard"), Entry("url", "url"),
       Entry("email", "email"), Entry("bankcard", "bankcard") >>

\* the pattern matches at position i of s
MatchAt(p, s, i) ==
    LET n == Len(p.atoms) IN
    /\ i + n - 1 <= Len(s)
    /\ \A k \in 1..n : s[i + k - 1] \in p.atoms[k]
    /\ (i > 1 => s[i - 1] \notin p.lb)
    /\ (i + n <= Len(s) => s[i + n] \notin p.la)

\* one element of re.findall's list: the match with no group, the group with
\* one group, the tuple of groups with more
FindallItem(p, m) ==
    IF Len(p.groups) = 0 THEN [isstr |-> TRUE, s |-> m, t |-> <<>>]
    ELSE IF Len(p.groups) = 1
         THEN [isstr |-> TRUE, s |-> SubSeq(m, p.groups[1][1], p.groups[1][2]), t |-> <<>>]
         ELSE [isstr |-> FALSE, s |-> <<>>,
               t |-> [k \in 1..Len(p.groups) |-> SubSeq(m, p.groups[k][1], p.groups[k][2])]]

RECURSIVE FindFrom(_, _, _)
\* the non-overlapping matches from position i on, left to right
FindFrom(p, s, i) ==
    IF i > Len(s) + 1 THEN <<>>
    ELSE IF MatchAt(p, s, i)
         THEN LET n == Len(p.atoms) IN
              <<FindallItem(p, SubSeq(s, i, i + n - 1))>>
                  \o FindFrom(p, s, IF n = 0 THEN i + 1 ELSE i + n)
         ELSE FindFrom(p, s, i + 1)

\* re.findall(pattern, text)
Findall(src, s) == FindFrom(Compile(src), s, 1)

-----------------------------------------------------------------------------
(* Segmentation: jieba.cut keeps a run of letters and digits as one token and *)
(* yields every other character by itself                                     *)

RECURSIVE Cut(_, _, _)
Cut(s, i, run) ==
    IF i > Len(s) THEN (IF run = <<>> THEN <<>> ELSE <<run>>)
    ELSE IF s[i] = Space
         THEN (IF run = <<>> THEN <<>> ELSE <<run>>) \o << <<s[i]>> >> \o Cut(s, i + 1, <<>>)
         ELSE Cut(s, i + 1, Append(run, s[i]))

\* list(jieba.cut(text))
jieba_cut(s) == Cut(s, 1, <<>>)

-----------------------------------------------------------------------------
(* Reasons and return values *)

\* f"包含敏感词: {word}"
WordReason(word) == [head |-> "contains", label |-> "banned word", body |-> word]

\* f"包含{pattern_name}: {match_text}"
PatternReason(name, match_text) == [head |-> "contains", label |-> name, body |-> match_text]

\* "内容过短"
ShortReason == [head |-> "content too short", label |-> "", body |-> <<>>]

\* "输入无效"
InvalidReason == [head |-> "invalid input", label |-> "", body |-> <<>>]

\* f"检查过程出错: {str(e)}"
ErrorReason(e) == [head |-> "screening error", label |-> e, body |-> <<>>]

RetNone == [type |-> "NoneType", b |-> FALSE, reasons |-> <<>>]

RetBool(b) == [type |-> "bool", b |-> b, reasons |-> <<>>]

\* the tuple (is_appropriate, reasons)
RetVerdict(is_appropriate, reasons) ==
    [type |-> "tuple", b |-> is_appropriate, reasons |-> reasons]

\* a list; its items are kept in the field results of the call
RetList == [type |-> "list", b |-> FALSE, reasons |-> <<>>]

NoLog == [level |-> "", n |-> 0]

\* The vocabulary file handed to __init__.  kind: "none", no path given;
\* "missing", no file at the path; "unreadable", open() or the decoding raises;
\* "json", a path ending in .json; "text", any other path.  For a JSON file,
\* top is the type of the document ("bad" when json.load raises); a dict has
\* the one key key, and under "words" a value of type val; items are the
\* elements of the array (the document or the value of "words"), s the value
\* of "words" when it is a string.  For a text file, items are the lines
Source(kind, top, key, val, items, s) ==
    [kind |-> kind, top |-> top, key |-> key, val |-> val, items |-> items, s |-> s]

NoSource == Source("none", "", "", "", <<>>, <<>>)

\* elements of a JSON array: two strings, a number, a nested array
JStr(s) == [t |-> "str", s |-> s]

JNum == [t |-> "num", s |-> <<"1">>]

JArr == [t |-> "list", s |-> <<>>]

JItems == {JStr(<<"a">>), JStr(<<"a", "b">>), JNum, JArr}

ItemLists == UNION { [1..n -> JItems] : n \in 0..MaxItems }

\* lines of a text file: a word, a word with blanks around it, a blank line
Lines == {JStr(<<"a">>), JStr(<<" ", "a", "b", " ">>), JStr(<<" ">>)}

LineLists == UNION { [1..n -> Lines] : n \in 0..MaxItems }

Sources ==
    {NoSource,
     Source("missing", "", "", "", <<>>, <<>>),
     Source("unreadable", "", "", "", <<>>, <<>>),
     Source("json", "bad", "", "", <<>>, <<>>),
     Source("json", "str", "", "", <<>>, <<>>),
     Source("json", "num", "", "", <<>>, <<>>),
     Source("json", "null", "", "", <<>>, <<>>),
     Source("json", "dict", "other", "", <<>>, <<>>),
     Source("json", "dict", "words", "str", <<>>, <<"a", "b">>),
     Source("json", "dict", "words", "num", <<>>, <<>>),
     Source("json", "dict", "words", "null", <<>>, <<>>)}
    \cup {Source("json", "list", "", "", items, <<>>) : items \in ItemLists}
    \cup {Source("json", "dict", "words", "list", items, <<>>) : items \in ItemLists}
    \cup {Source("text", "", "", "", lines, <<>>) : lines \in LineLists}

\* what a call did about tokenization: hit, the text was a key of word_cache
\* when the call began; cut, the call ran jieba.cut.  Neither is recorded for
\* calls that are run statement by statement
NoTok == [hit |-> FALSE, cut |-> FALSE]

\* a completed call
Call(op, text, words, name, src, ret, log) ==
    [op |-> op, text |-> text, words |-> words, name |-> name, src |-> src,
     ret |-> ret, log |-> log, tok |-> NoTok, texts |-> <<>>, results |-> <<>>,
     total |-> 0, inappropriate_count |-> 0, source |-> NoSource]

NoCall == Call("init", NoneIn, <<>>, "", "", RetNone, NoLog)

\* no check_batch call is in flight
NoBatch == [on |-> FALSE, texts |-> <<>>, results |-> <<>>]

\* no add-then-remove pair of calls is under way
NoTrip == [stage |-> "none", word |-> <<>>, was_member |-> FALSE]

-----------------------------------------------------------------------------
(* _load_sensitive_words *)

\* the int 1 as an element of a set: not a str
NumElem == <<"int", "1">>

\* str.strip() for blanks
RECURSIVE LStrip(_)
LStrip(s) == IF s # <<>> /\ Head(s) = Space THEN LStrip(Tail(s)) ELSE s

RECURSIVE RStrip(_)
RStrip(s) ==
    IF s # <<>> /\ s[Len(s)] = Space THEN RStrip(SubSeq(s, 1, Len(s) - 1)) ELSE s

Strip(s) == RStrip(LStrip(s))

\* set(x) for a list of JSON values: TypeError on an unhashable element, else
\* the set of the elements, whatever their types
PySetOfList(items) ==
    IF \E k \in 1..Len(items) : items[k].t = "list"
    THEN [ok |-> FALSE, set |-> {}]
    ELSE [ok |-> TRUE,
          set |-> {IF items[k].t = "str" THEN items[k].s ELSE NumElem :
                      k \in 1..Len(items)}]

\* set(x) for a str: the set of its characters
PySetOfStr(s) == [ok |-> TRUE, set |-> {<<s[k]>> : k \in 1..Len(s)}]

\* _load_sensitive_words: the default set when no file is given, the file is
\* missing, or anything in the try block raises; set(...) of a JSON list or of
\* the value under "words"; the stripped non-blank lines of a text file
load_sensitive_words(src) ==
    IF src.kind \in {"none", "missing", "unreadable"} THEN DefaultWords
    ELSE IF src.kind = "json"
         THEN IF src.top = "list"
              THEN LET r == PySetOfList(src.items) IN
                   IF r.ok THEN r.set ELSE DefaultWords
              ELSE IF src.top = "dict" /\ src.key = "words"
                   THEN LET r == IF src.val = "list" THEN PySetOfList(src.items)
                                 ELSE IF src.val = "str" THEN PySetOfStr(src.s)
                                 ELSE [ok |-> FALSE, set |-> {}]
                        IN IF r.ok THEN r.set ELSE DefaultWords
                   ELSE DefaultWords
         ELSE {Strip(src.items[k].s) : k \in 1..Len(src.items)} \ {<<>>}

-----------------------------------------------------------------------------
(* The dict self.patterns: insertion ordered, one entry per name *)

DictHas(d, name) == \E k \in 1..Len(d) : d[k].name = name

DictGet(d, name) == d[CHOOSE k \in 1..Len(d) : d[k].name = name].src

\* a new name put first
DictSet_Prepend(d, name, src) ==
    IF DictHas(d, name)
    THEN [k \in 1..Len(d) |-> IF d[k].name = name THEN Entry(name, src) ELSE d[k]]
    ELSE <<Entry(name, src)>> \o d

\* d[name] = src: an existing name keeps its place, a new one goes last
DictSet(d, name, src) ==
    IF DictHas(d, name)
    THEN [k \in 1..Len(d) |-> IF d[k].name = name THEN Entry(name, src) ELSE d[k]]
    ELSE Append(d, Entry(name, src))

\* the last entry deleted, whatever the name
DictDel_Last(d, name) == SubSeq(d, 1, Len(d) - 1)

\* del d[name]
DictDel(d, name) == SelectSeq(d, LAMBDA e : e.name # name)

DictNames(d) == [k \in 1..Len(d) |-> d[k].name]

Range(f) == {f[k] : k \in DOMAIN f}

EmptyCache == [t \in {} |-> <<>>]

-----------------------------------------------------------------------------
(* check_content *)

\* _preprocess_text keyed by the first character of the text
preprocess_text_PrefixKey(s, cache) ==
    IF SubSeq(s, 1, 1) \in DOMAIN cache
    THEN [words |-> cache[SubSeq(s, 1, 1)], cache |-> cache, cut |-> FALSE]
    ELSE LET words == jieba_cut(s) IN
         [words |-> words,
          cache |-> [t \in DOMAIN cache \cup {SubSeq(s, 1, 1)} |->
                        IF t = SubSeq(s, 1, 1) THEN words ELSE cache[t]],
          cut |-> TRUE]

\* _preprocess_text keyed by the stripped text
preprocess_text_StripKey(s, cache) ==
    IF Strip(s) \in DOMAIN cache
    THEN [words |-> cache[Strip(s)], cache |-> cache, cut |-> FALSE]
    ELSE LET words == jieba_cut(s) IN
         [words |-> words,
          cache |-> [t \in DOMAIN cache \cup {Strip(s)} |->
                        IF t = Strip(s) THEN words ELSE cache[t]],
          cut |-> TRUE]

\* _preprocess_text without its lookup: every call cuts the text again
preprocess_text_NoLookup(s, cache) ==
    LET words == jieba_cut(s) IN
    [words |-> words,
     cache |-> [t \in DOMAIN cache \cup {s} |-> IF t = s THEN words ELSE cache[t]],
     cut |-> TRUE]

\* _preprocess_text: the cached token list on a hit; on a miss the segmenter's
\* result, stored under the raw text
preprocess_text(s, cache) ==
    IF s \in DOMAIN cache
    THEN [words |-> cache[s], cache |-> cache, cut |-> FALSE]
    ELSE LET words == jieba_cut(s) IN
         [words |-> words,
          cache |-> [t \in DOMAIN cache \cup {s} |-> IF t = s THEN words ELSE cache[t]],
          cut |-> TRUE]

\* the guard without its isinstance test
InvalidInput_NoTypeCheck(text) == ~Truthy(text)

\* the guard of check_content: not text or not isinstance(text, str)
InvalidInput(text) == ~Truthy(text) \/ text.type # "str"

\* a word loop that breaks after its first hit
WordReasons_FirstOnly(words, vocab) ==
    LET hits == SelectSeq(words, LAMBDA w : w \in vocab) IN
    IF hits = <<>> THEN <<>> ELSE <<WordReason(hits[1])>>

\* the word loop: one reason per token that is in the set, in token order
WordReasons(words, vocab) ==
    LET hits == SelectSeq(words, LAMBDA w : w \in vocab) IN
    [k \in 1..Len(hits) |-> WordReason(hits[k])]

\* match if isinstance(match, str) else match[0]
MatchText(match) == IF match.isstr THEN match.s ELSE match.t[1]

\* the body of the pattern loop for one rule
RuleReasons(entry, s) ==
    LET matches == Findall(entry.src, s) IN
    [k \in 1..Len(matches) |-> PatternReason(entry.name, MatchText(matches[k]))]

RECURSIVE PatternReasonsFrom(_, _, _)
PatternReasonsFrom(d, s, k) ==
    IF k > Len(d) THEN <<>>
    ELSE RuleReasons(d[k], s) \o PatternReasonsFrom(d, s, k + 1)

\* the pattern loop: for pattern_name, pattern in self.patterns.items()
PatternReasons(d, s) == PatternReasonsFrom(d, s, 1)

\* a length check that also rejects a text of exactly the minimum length
LengthReasons_AtMost(s) == IF Len(s) <= MinLength THEN <<ShortReason>> ELSE <<>>

\* the length check
LengthReasons(s) == IF Len(s) < MinLength THEN <<ShortReason>> ELSE <<>>

\* is_appropriate off by one
IsAppropriate_AtMostOne(reasons) == Len(reasons) <= 1

\* is_appropriate = len(reasons) == 0
IsAppropriate(reasons) == Len(reasons) = 0

\* re.findall raises re.error on a pattern that does not compile
FindallRaises(d) == \E k \in 1..Len(d) : ~Compile(d[k].src).ok

\* the pattern loop placed before the word loop
Reasons_PatternsFirst(s, words, vocab, d) ==
    PatternReasons(d, s) \o WordReasons(words, vocab) \o LengthReasons(s)

\* the reasons of the try block, in the order the code appends them
Reasons(s, words, vocab, d) ==
    WordReasons(words, vocab) \o PatternReasons(d, s) \o LengthReasons(s)

\* check_content run without interleaving: its return value and the cache after it
check_content(text, vocab, d, cache) ==
    IF InvalidInput(text)
    THEN [ret |-> RetVerdict(FALSE, <<InvalidReason>>), cache |-> cache, cut |-> FALSE]
    ELSE LET pre == preprocess_text(text.s, cache) IN
         IF FindallRaises(d)
         THEN [ret |-> RetVerdict(FALSE, <<ErrorReason("re.error")>>),
               cache |-> pre.cache, cut |-> pre.cut]
         ELSE LET reasons == Reasons(text.s, pre.words, vocab, d) IN
              [ret |-> RetVerdict(IsAppropriate(reasons), reasons),
               cache |-> pre.cache, cut |-> pre.cut]

\* one turn of the loop of check_batch: results.append(self.check_content(text))
BatchTurn(acc, text, vocab, d) ==
    LET one == check_content(text, vocab, d, acc.cache) IN
    [results |-> Append(acc.results, one.ret), cache |-> one.cache]

\* the loop of check_batch from item k on, acc holding the results so far and
\* the cache as the calls so far left it
RECURSIVE check_batch_from(_, _, _, _, _)
check_batch_from(texts, k, vocab, d, acc) ==
    IF k > Len(texts) THEN acc
    ELSE check_batch_from(texts, k + 1, vocab, d, BatchTurn(acc, texts[k], vocab, d))

\* a batch that screens its valid items only
check_batch_SkipInvalid(texts, vocab, d, cache) ==
    check_batch_from(SelectSeq(texts, LAMBDA t : ~InvalidInput(t)), 1, vocab, d,
                     [results |-> <<>>, cache |-> cache])

\* check_batch: [] for an empty list, else one check_content per item, in order
check_batch(texts, vocab, d, cache) ==
    IF Len(texts) = 0 THEN [results |-> <<>>, cache |-> cache]
    ELSE check_batch_from(texts, 1, vocab, d, [results |-> <<>>, cache |-> cache])

\* sum(1 for ... if not is_appropriate)
InappropriateCount(results) == Len(SelectSeq(results, LAMBDA r : ~r.b))

-----------------------------------------------------------------------------
(* The public operations, each as one call *)

\* the state a check_content call leaves
CheckContentOp(text) ==
    /\ word_cache' = check_content(text, sensitive_words, patterns, word_cache).cache
    /\ UNCHANGED <<sensitive_words, patterns>>

\* what the call returned, and whether it found the text cached or cut it
CheckContentCall(text) ==
    [Call("check_content", text, <<>>, "", "",
          check_content(text, sensitive_words, patterns, word_cache).ret, NoLog)
     EXCEPT !.tok = [hit |-> ~InvalidInput(text) /\ text.s \in DOMAIN word_cache,
                     cut |-> check_content(text, sensitive_words, patterns,
                                           word_cache).cut]]

\* the set replaced by the given words
SetUpdate_Replace(vocab, words) == {words[k] : k \in DOMAIN words}

\* self.sensitive_words.update(words)
SetUpdate(vocab, words) == vocab \cup Range(words)

\* difference() in place of difference_update(): the set is left as it was
SetDifferenceUpdate_Keep(vocab, words) == vocab

\* self.sensitive_words.difference_update(words)
SetDifferenceUpdate(vocab, words) == vocab \ Range(words)

AddSensitiveWordsOp(words) ==
    /\ sensitive_words' = SetUpdate(sensitive_words, words)
    /\ UNCHANGED <<patterns, word_cache>>

\* add_sensitive_words returns None and logs new_count - original_count
AddSensitiveWordsCall(words) ==
    LET original_count == Cardinality(sensitive_words)
        new_count == Cardinality(SetUpdate(sensitive_words, words))
    IN  Call("add_sensitive_words", NoneIn, words, "", "", RetNone,
             [level |-> "info", n |-> new_count - original_count])

RemoveSensitiveWordsOp(words) ==
    /\ sensitive_words' = SetDifferenceUpdate(sensitive_words, words)
    /\ UNCHANGED <<patterns, word_cache>>

\* remove_sensitive_words returns None and logs original_count - new_count
RemoveSensitiveWordsCall(words) ==
    LET original_count == Cardinality(sensitive_words)
        new_count == Cardinality(SetDifferenceUpdate(sensitive_words, words))
    IN  Call("remove_sensitive_words", NoneIn, words, "", "", RetNone,
             [level |-> "info", n |-> original_count - new_count])

\* add_pattern without the re.compile test
CompileRaises_Never(src) == FALSE

\* the try block of add_pattern: re.compile(pattern) raises re.error or not
CompileRaises(src) == ~Compile(src).ok

\* add_pattern returning whether it inserted
AddPatternRet_Bool(inserted) == RetBool(inserted)

\* add_pattern returns nothing on either path
AddPatternRet(inserted) == RetNone

AddPatternOp(name, src) ==
    /\ patterns' = IF CompileRaises(src) THEN patterns ELSE DictSet(patterns, name, src)
    /\ UNCHANGED <<sensitive_words, word_cache>>

\* add_pattern logs at info level after the insertion, at error level in the except clause
AddPatternCall(name, src) ==
    IF CompileRaises(src)
    THEN Call("add_pattern", NoneIn, <<>>, name, src, AddPatternRet(FALSE),
              [level |-> "error", n |-> 0])
    ELSE Call("add_pattern", NoneIn, <<>>, name, src, AddPatternRet(TRUE),
              [level |-> "info", n |-> 0])

RemovePatternOp(name) ==
    /\ patterns' = IF DictHas(patterns, name) THEN DictDel(patterns, name) ELSE patterns
    /\ UNCHANGED <<sensitive_words, word_cache>>

\* remove_pattern returns whether the name was in the dict
RemovePatternCall(name) ==
    IF DictHas(patterns, name)
    THEN Call("remove_pattern", NoneIn, <<>>, name, "", RetBool(TRUE),
              [level |-> "info", n |-> 0])
    ELSE Call("remove_pattern", NoneIn, <<>>, name, "", RetBool(FALSE),
              [level |-> "warning", n |-> 0])

\* a clear_cache that drops nothing
ClearCacheOp_Keep == UNCHANGED <<sensitive_words, patterns, word_cache>>

\* self.word_cache.clear()
ClearCacheOp ==
    /\ word_cache' = EmptyCache
    /\ UNCHANGED <<sensitive_words, patterns>>

\* clear_cache returns None and logs the number of entries it dropped
ClearCacheCall ==
    Call("clear_cache", NoneIn, <<>>, "", "", RetNone,
         [level |-> "info", n |-> Cardinality(DOMAIN word_cache)])

\* the state a check_batch call leaves
CheckBatchOp(texts) ==
    /\ word_cache' = check_batch(texts, sensitive_words, patterns, word_cache).cache
    /\ UNCHANGED <<sensitive_words, patterns>>

\* what check_batch returned, the statistics the batch endpoint derives from the
\* list, and the statistics line check_batch logs for a non-empty batch
BatchCall(texts, results) ==
    [Call("check_batch", NoneIn, <<>>, "", "", RetList,
          IF Len(texts) = 0 THEN NoLog ELSE [level |-> "info", n |-> Len(texts)])
     EXCEPT !.texts = texts,
            !.results = results,
            !.total = Len(results),
            !.inappropriate_count = InappropriateCount(results)]

CheckBatchCall(texts) ==
    BatchCall(texts, check_batch(texts, sensitive_words, patterns, word_cache).results)

-----------------------------------------------------------------------------
(* One caller at a time: every call runs to its end before the next starts *)

IdleCur == [text |-> <<>>, words |-> <<>>, i |-> 0, reasons |-> <<>>,
            di_used |-> 0, di_pos |-> 0, dirty |-> FALSE]

Init ==
    /\ sensitive_words = DefaultWords
    /\ patterns = BuiltinPatterns
    /\ word_cache = EmptyCache
    /\ last = NoCall
    /\ pc = "idle"
    /\ cur = IdleCur
    /\ snaps = {}
    /\ muts = 0
    /\ roundtrip = NoTrip
    /\ batch = NoBatch

thread == <<pc, cur, snaps, muts, batch>>

CheckContent ==
    \E text \in TextInputs :
        /\ CheckContentOp(text)
        /\ last' = CheckContentCall(text)
        /\ roundtrip' = IF /\ roundtrip.stage = "added"
                           /\ ~InvalidInput(text)
                           /\ text.s \in DOMAIN word_cache
                        THEN [roundtrip EXCEPT !.stage = "rescreened"]
                        ELSE NoTrip
        /\ UNCHANGED thread

AddSensitiveWords ==
    \E words \in WordLists :
        /\ AddSensitiveWordsOp(words)
        /\ last' = AddSensitiveWordsCall(words)
        /\ roundtrip' = IF Len(words) = 1
                         THEN [stage |-> "added", word |-> words[1],
                               was_member |-> words[1] \in sensitive_words]
                         ELSE NoTrip
        /\ UNCHANGED thread

RemoveSensitiveWords ==
    \E words \in WordLists :
        /\ RemoveSensitiveWordsOp(words)
        /\ last' = RemoveSensitiveWordsCall(words)
        /\ roundtrip' = IF roundtrip.stage = "added" /\ words = <<roundtrip.word>>
                         THEN [roundtrip EXCEPT !.stage = "removed"]
                         ELSE NoTrip
        /\ UNCHANGED thread

AddPattern ==
    \E name \in RuleNames, src \in PatternSources :
        /\ AddPatternOp(name, src)
        /\ last' = AddPatternCall(name, src)
        /\ roundtrip' = NoTrip
        /\ UNCHANGED thread

RemovePattern ==
    \E name \in RuleNames :
        /\ RemovePatternOp(name)
        /\ last' = RemovePatternCall(name)
        /\ roundtrip' = NoTrip
        /\ UNCHANGED thread

ClearCache ==
    /\ ClearCacheOp
    /\ last' = ClearCacheCall
    /\ roundtrip' = NoTrip
    /\ UNCHANGED thread

CheckBatch ==
    \E texts \in BatchLists :
        /\ CheckBatchOp(texts)
        /\ last' = CheckBatchCall(texts)
        /\ roundtrip' = NoTrip
        /\ UNCHANGED thread

Next ==
    \/ CheckContent
    \/ AddSensitiveWords
    \/ RemoveSensitiveWords
    \/ AddPattern
    \/ RemovePattern
    \/ ClearCache

Spec == Init /\ [][Next]_vars

\* One caller that screens batches while the vocabulary and the rule dict grow
\* and the cache is cleared now and then
BatchNext ==
    \/ CheckBatch
    \/ AddSensitiveWords
    \/ AddPattern
    \/ ClearCache

BatchSpec == Init /\ [][BatchNext]_vars

\* ContentFilter(sensitive_words_file): the filter is built anew from a file
Construct ==
    \E src \in Sources :
        /\ sensitive_words' = load_sensitive_words(src)
        /\ patterns' = BuiltinPatterns
        /\ word_cache' = EmptyCache
        /\ last' = [Call("__init__", NoneIn, <<>>, "", "", RetNone,
                         [level |-> "info",
                          n |-> Cardinality(load_sensitive_words(src))])
                    EXCEPT !.source = src]
        /\ roundtrip' = NoTrip
        /\ UNCHANGED thread

\* The filter built from one vocabulary file after the other
LoadSpec == Init /\ [][Construct]_vars

-----------------------------------------------------------------------------
(* Several callers: one check_content call runs statement by statement while *)
(* other callers' add/remove/clear calls run in between.  The class holds no *)
(* lock; a call of another thread may run between any two statements.  The   *)
(* variable last follows the caller of check_content only.                   *)

\* a check_content that discards from the vocabulary the words of its text
ScreenFrame_Discards ==
    /\ sensitive_words' = sensitive_words \ Range(cur.words)
    /\ patterns' = patterns

\* no statement of check_content or check_batch assigns to self.sensitive_words
\* or self.patterns or calls a method that changes them
ScreenFrame == UNCHANGED <<sensitive_words, patterns>>

\* check_content returns ret
Return(ret) ==
    /\ cur' = IdleCur
    /\ snaps' = {}
    /\ IF batch.on
       THEN /\ batch' = [batch EXCEPT !.results = Append(@, ret)]
            /\ pc' = "batch_loop"
            /\ UNCHANGED last
       ELSE /\ last' = Call("check_content", StrIn(cur.text), <<>>, "", "", ret, NoLog)
            /\ pc' = "idle"
            /\ UNCHANGED batch

\* an except clause that lets the exception through to the caller
Except_Raise(e) ==
    /\ pc' = "raised"
    /\ UNCHANGED <<last, cur, snaps, batch>>

\* the except clause: return False, [f"检查过程出错: {str(e)}"]
Except(e) == Return(RetVerdict(FALSE, <<ErrorReason(e)>>))

\* the call starts: the guard on text, then the try block
CStart ==
    \E text \in ConcTextInputs :
        /\ pc = "idle"
        /\ IF InvalidInput(text)
           THEN /\ last' = Call("check_content", text, <<>>, "", "",
                                RetVerdict(FALSE, <<InvalidReason>>), NoLog)
                /\ UNCHANGED <<pc, cur, snaps>>
           ELSE /\ pc' = "cache_check"
                /\ cur' = [IdleCur EXCEPT !.text = text.s]
                /\ snaps' = {<<sensitive_words, patterns>>}
                /\ UNCHANGED last
        /\ ScreenFrame
        /\ UNCHANGED <<word_cache, muts, roundtrip, batch>>

\* _preprocess_text: if text in self.word_cache
CCacheCheck ==
    /\ pc = "cache_check"
    /\ pc' = IF cur.text \in DOMAIN word_cache THEN "cache_read" ELSE "cut"
    /\ ScreenFrame
    /\ UNCHANGED <<word_cache, last, cur, snaps, muts, roundtrip, batch>>

\* _preprocess_text: return self.word_cache[text]; KeyError when the entry is gone
CCacheRead ==
    /\ pc = "cache_read"
    /\ IF cur.text \in DOMAIN word_cache
       THEN /\ cur' = [cur EXCEPT !.words = word_cache[cur.text], !.i = 1]
            /\ pc' = "words"
            /\ UNCHANGED <<last, snaps, batch>>
       ELSE Except("KeyError")
    /\ ScreenFrame
    /\ UNCHANGED <<word_cache, muts, roundtrip>>

\* _preprocess_text: words = list(jieba.cut(text)); self.word_cache[text] = words
CCut ==
    /\ pc = "cut"
    /\ LET words == jieba_cut(cur.text) IN
       /\ word_cache' = [t \in DOMAIN word_cache \cup {cur.text} |->
                            IF t = cur.text THEN words ELSE word_cache[t]]
       /\ cur' = [cur EXCEPT !.words = words, !.i = 1]
    /\ pc' = "words"
    /\ ScreenFrame
    /\ UNCHANGED <<last, snaps, muts, roundtrip, batch>>

\* one turn of the word loop; after the last token, iter(self.patterns.items())
CWord ==
    /\ pc = "words"
    /\ IF cur.i <= Len(cur.words)
       THEN /\ cur' = [cur EXCEPT
                          !.reasons = @ \o WordReasons(<<cur.words[cur.i]>>, sensitive_words),
                          !.i = @ + 1]
            /\ pc' = pc
       ELSE /\ cur' = [cur EXCEPT !.di_used = Len(patterns), !.di_pos = 1, !.dirty = FALSE]
            /\ pc' = "patterns"
    /\ ScreenFrame
    /\ UNCHANGED <<word_cache, last, snaps, muts, roundtrip, batch>>

\* the next item of the dict iterator and the loop body for it
PatternStep ==
    IF cur.di_pos <= Len(patterns)
    THEN /\ cur' = [cur EXCEPT !.reasons = @ \o RuleReasons(patterns[cur.di_pos], cur.text),
                               !.di_pos = @ + 1]
         /\ UNCHANGED <<pc, last, snaps, batch>>
    ELSE /\ pc' = "length"
         /\ UNCHANGED <<cur, last, snaps, batch>>

\* one turn of the pattern loop.  A dict whose size changed since the iterator
\* was made raises RuntimeError; one whose keys changed at the same size may
\* raise or go on with the entries as they are now
CPattern ==
    /\ pc = "patterns"
    /\ IF Len(patterns) # cur.di_used
       THEN Except("RuntimeError")
       ELSE IF cur.dirty
            THEN \/ Except("RuntimeError")
                 \/ PatternStep
            ELSE PatternStep
    /\ ScreenFrame
    /\ UNCHANGED <<word_cache, muts, roundtrip>>

\* the length check, is_appropriate, and the return
CLength ==
    /\ pc = "length"
    /\ LET reasons == cur.reasons \o LengthReasons(cur.text) IN
       Return(RetVerdict(IsAppropriate(reasons), reasons))
    /\ ScreenFrame
    /\ UNCHANGED <<word_cache, muts, roundtrip>>

\* what a call of another caller leaves in the in-flight call's view
Other ==
    /\ muts < MaxMut
    /\ muts' = muts + 1
    /\ pc' = pc
    /\ UNCHANGED <<last, roundtrip, batch>>
    /\ snaps' = IF pc \in {"idle", "batch_loop"} THEN snaps
              ELSE snaps \cup {<<sensitive_words', patterns'>>}
    /\ cur' = IF pc = "patterns" /\ DictNames(patterns') # DictNames(patterns)
              THEN [cur EXCEPT !.dirty = TRUE]
              ELSE cur

OAddSensitiveWords == \E words \in WordLists : AddSensitiveWordsOp(words) /\ Other

ORemoveSensitiveWords == \E words \in WordLists : RemoveSensitiveWordsOp(words) /\ Other

OAddPattern ==
    \E name \in RuleNames, src \in PatternSources : AddPatternOp(name, src) /\ Other

ORemovePattern == \E name \in RuleNames : RemovePatternOp(name) /\ Other

OClearCache == ClearCacheOp /\ Other

ConcNext ==
    \/ CStart
    \/ CCacheCheck
    \/ CCacheRead
    \/ CCut
    \/ CWord
    \/ CPattern
    \/ CLength
    \/ OAddSensitiveWords
    \/ ORemoveSensitiveWords
    \/ OAddPattern
    \/ ORemovePattern
    \/ OClearCache

ConcSpec == Init /\ [][ConcNext]_vars

-----------------------------------------------------------------------------
(* Several callers, the observed one in check_batch: its loop runs one        *)
(* check_content after the other, each statement by statement as above, and   *)
(* other callers' add_pattern, remove_pattern and clear_cache calls, the ones *)
(* that can make a statement of check_content raise, run in between           *)

\* the batches of the concurrent caller
ConcBatchItems == {NoneIn, StrIn(<<"a", " ", "a">>)}

ConcBatchLists == UNION { [1..n -> ConcBatchItems] : n \in 0..MaxBatch }

\* check_batch starts: [] at once for an empty list, else results = []
BStart ==
    \E texts \in ConcBatchLists :
        /\ pc = "idle"
        /\ IF Len(texts) = 0
           THEN /\ last' = BatchCall(texts, <<>>)
                /\ UNCHANGED <<pc, batch>>
           ELSE /\ pc' = "batch_loop"
                /\ batch' = [on |-> TRUE, texts |-> texts, results |-> <<>>]
                /\ UNCHANGED last
        /\ ScreenFrame
        /\ UNCHANGED <<word_cache, cur, snaps, muts, roundtrip>>

\* the next item of the loop: self.check_content(text) starts, with its guard
BItem ==
    /\ pc = "batch_loop"
    /\ Len(batch.results) < Len(batch.texts)
    /\ LET text == batch.texts[Len(batch.results) + 1] IN
       IF InvalidInput(text)
       THEN /\ batch' = [batch EXCEPT
                            !.results = Append(@, RetVerdict(FALSE, <<InvalidReason>>))]
            /\ UNCHANGED <<pc, cur, snaps>>
       ELSE /\ pc' = "cache_check"
            /\ cur' = [IdleCur EXCEPT !.text = text.s]
            /\ snaps' = {<<sensitive_words, patterns>>}
            /\ UNCHANGED batch
    /\ ScreenFrame
    /\ UNCHANGED <<word_cache, last, muts, roundtrip>>

\* the loop is over: the statistics and return results
BReturn ==
    /\ pc = "batch_loop"
    /\ Len(batch.results) = Len(batch.texts)
    /\ last' = BatchCall(batch.texts, batch.results)
    /\ pc' = "idle"
    /\ batch' = NoBatch
    /\ ScreenFrame
    /\ UNCHANGED <<word_cache, cur, snaps, muts, roundtrip>>

BatchConcNext ==
    \/ BStart
    \/ BItem
    \/ BReturn
    \/ CCacheCheck
    \/ CCacheRead
    \/ CCut
    \/ CWord
    \/ CPattern
    \/ CLength
    \/ OAddPattern
    \/ ORemovePattern
    \/ OClearCache

BatchConcSpec == Init /\ [][BatchConcNext]_vars

-----------------------------------------------------------------------------
(* Properties *)

InvalidVerdict == RetVerdict(FALSE, <<InvalidReason>>)

IsWordReason(r) == r.head = "contains" /\ r.label = "banned word"

IsPatternReason(r) == r.head = "contains" /\ r.label # "banned word"

\* C1: every verdict check_content returns, on the invalid-input path, the
\* normal path and the except path, and whatever other callers did to the
\* registries and the cache, has is_appropriate true exactly when reasons is empty.
C1_VerdictInvariant ==
    last.op = "check_content" => (last.ret.b <=> Len(last.ret.reasons) = 0)

\* a call that ended in the except clause after another caller changed self.patterns
C1_Witness ==
    /\ last.op = "check_content"
    /\ last.ret.reasons = <<ErrorReason("RuntimeError")>>
    /\ ~last.ret.b
    /\ muts > 0

\* text is empty, is not a str, or holds whitespace only
C2_EmptyNonTextOrBlank(x) ==
    \/ x.type # "str"
    \/ x.s = <<>>
    \/ \A k \in 1..Len(x.s) : x.s[k] = Space

C2_EmptyOrNonText(x) == x.type # "str" \/ x.s = <<>>

\* C2 as claimed: check_content of an empty, non-str or whitespace-only text
\* returns (False, ["invalid input"]) and leaves the tokenization cache as it was.
C2_Original ==
    [][(last'.op = "check_content" /\ C2_EmptyNonTextOrBlank(last'.text))
          => (last'.ret = InvalidVerdict /\ word_cache' = word_cache)]_vars

\* C2, amended: check_content of an empty or non-str text returns
\* (False, ["invalid input"]) and leaves the tokenization cache as it was.
C2_Amended ==
    [][(last'.op = "check_content" /\ C2_EmptyOrNonText(last'.text))
          => (last'.ret = InvalidVerdict /\ word_cache' = word_cache)]_vars

\* a non-str input rejected while the cache holds entries
C2_Witness ==
    /\ last.op = "check_content"
    /\ last.text = IntIn
    /\ last.ret = InvalidVerdict
    /\ DOMAIN word_cache # {}

\* C3: the verdict of an in-flight check_content equals the verdict of an
\* uninterrupted call against the word set and the pattern dict as they stood
\* at one moment of the call, whatever add/remove calls ran meanwhile (a call
\* that failed on a cleared cache entry is left aside).
C3_ConsistentSnapshot ==
    [][(pc # "idle" /\ pc' = "idle" /\ last'.ret.reasons # <<ErrorReason("KeyError")>>)
          => \E sn \in snaps :
                last'.ret = check_content(StrIn(cur.text), sn[1], sn[2], EmptyCache).ret]_vars

RECURSIVE C4_WordPart(_, _)
\* one banned-word reason per token that is in the set, in token order
C4_WordPart(tokens, vocab) ==
    IF tokens = <<>> THEN <<>>
    ELSE (IF Head(tokens) \in vocab THEN <<WordReason(Head(tokens))>> ELSE <<>>)
             \o C4_WordPart(Tail(tokens), vocab)

RECURSIVE C4_PatternPart(_, _)
\* the pattern reasons rule by rule in registry order, left to right in a rule
C4_PatternPart(d, s) ==
    IF d = <<>> THEN <<>>
    ELSE RuleReasons(Head(d), s) \o C4_PatternPart(Tail(d), s)

\* C4: for a valid text the reasons are the banned-word reasons in token order,
\* then the pattern reasons in registry order, then the length reason; no
\* banned-word reason follows a pattern reason and "content too short" is last.
C4_ReasonOrder ==
    (last.op = "check_content" /\ ~InvalidInput(last.text)) =>
        LET s == last.text.s
            rs == last.ret.reasons
        IN  /\ rs = C4_WordPart(jieba_cut(s), sensitive_words)
                       \o C4_PatternPart(patterns, s)
                       \o (IF Len(s) < MinLength THEN <<ShortReason>> ELSE <<>>)
            /\ \A i, j \in 1..Len(rs) :
                   (i < j /\ IsPatternReason(rs[i])) => ~IsWordReason(rs[j])
            /\ \A i \in 1..Len(rs) : rs[i] = ShortReason => i = Len(rs)

\* a verdict holding banned-word reasons, pattern reasons and the length reason
C4_Witness ==
    /\ last.op = "check_content"
    /\ \E i, j, k \in 1..Len(last.ret.reasons) :
          /\ IsWordReason(last.ret.reasons[i])
          /\ IsPatternReason(last.ret.reasons[j])
          /\ last.ret.reasons[k] = ShortReason

BuiltinNames == <<"phone", "idcard", "url", "email", "bankcard">>

\* the place of a rule name in the dict
RuleIndex(d, name) == CHOOSE k \in 1..Len(d) : d[k].name = name

\* one step keeps the dict in insertion order
C5_Step ==
    LET old == DictNames(patterns)
        new == DictNames(patterns')
        name == last'.name
        rs == last'.ret.reasons
    IN  /\ (last'.op = "add_pattern" /\ Compile(last'.src).ok) =>
               new = IF name \in Range(old) THEN old ELSE Append(old, name)
        /\ (last'.op = "add_pattern" /\ ~Compile(last'.src).ok) => new = old
        /\ last'.op = "remove_pattern" => new = SelectSeq(old, LAMBDA n : n # name)
        /\ last'.op \notin {"add_pattern", "remove_pattern"} => new = old
        /\ (last'.op = "check_content") =>
               \A i, j \in 1..Len(rs) :
                   (i < j /\ IsPatternReason(rs[i]) /\ IsPatternReason(rs[j]))
                       => RuleIndex(patterns, rs[i].label) <= RuleIndex(patterns, rs[j].label)

\* C5: the dict starts with the built-in rules in their order; a rule added
\* under a new name goes last, so a rule removed and added again is last; a
\* removal keeps the order of the others; reasons are reported in that order.
C5_InsertionOrder == DictNames(patterns) = BuiltinNames /\ [][C5_Step]_vars

\* the built-in rule "phone" was removed and added again after rule "r1"
C5_Witness ==
    /\ last.op = "add_pattern"
    /\ last.name = "phone"
    /\ DictNames(patterns) = <<"idcard", "url", "email", "bankcard", "r1", "phone">>

\* C6: add_pattern with a source that does not compile leaves the dict as it
\* was: same names, same pattern per name, same order.
C6_MalformedLeavesRegistry ==
    [][(last'.op = "add_pattern" /\ ~Compile(last'.src).ok) => patterns' = patterns]_vars

\* a malformed source offered under a name the dict holds with another pattern
C6_Witness ==
    /\ last.op = "add_pattern"
    /\ last.src = "(unclosed"
    /\ last.name = "r1"
    /\ DictHas(patterns, "r1")
    /\ DictGet(patterns, "r1") = "a(b)"

C8_RemovePattern ==
    [][last'.op = "remove_pattern" =>
          LET name == last'.name IN
          /\ last'.ret = RetBool(\E k \in 1..Len(patterns) : patterns[k].name = name)
          /\ last'.ret.b =>
                /\ \A k \in 1..Len(patterns') : patterns'[k].name # name
                /\ \E k \in 1..Len(patterns) :
                      /\ patterns[k].name = name
                      /\ patterns' = SubSeq(patterns, 1, k - 1)
                                        \o SubSeq(patterns, k + 1, Len(patterns))
          /\ ~last'.ret.b => patterns' = patterns]_vars

\* the built-in rule "phone" removed from a dict that also holds rule "r1"
C8_Witness ==
    /\ last.op = "remove_pattern"
    /\ last.name = "phone"
    /\ last.ret = RetBool(TRUE)
    /\ DictNames(patterns) = <<"idcard", "url", "email", "bankcard", "r1">>

\* C9 as claimed: after add_sensitive_words([X]) and then
\* remove_sensitive_words([X]), X is in the set exactly when it was before.
C9_Original ==
    roundtrip.stage = "removed" =>
        ((roundtrip.word \in sensitive_words) <=> roundtrip.was_member)

\* C9, amended: after add_sensitive_words([X]) and then
\* remove_sensitive_words([X]), X is not in the set; that restores the state
\* before the two calls only when X was not in the set then.
C9_Amended ==
    roundtrip.stage = "removed" =>
        /\ roundtrip.word \notin sensitive_words
        /\ ((roundtrip.word \in sensitive_words) <=> roundtrip.was_member)
               <=> ~roundtrip.was_member

\* the two calls made for a word that was not in the set
C9_Witness ==
    /\ roundtrip.stage = "removed"
    /\ ~roundtrip.was_member
    /\ last.op = "remove_sensitive_words"
    /\ last.log.n = 1

\* C10: add_sensitive_words makes the set the old set united with the words
\* and reports the number of distinct words that were not in it;
\* remove_sensitive_words makes it the old set minus the words and reports the
\* number of distinct words that were in it.
C10_AddRemoveWords ==
    [][LET given == {last'.words[k] : k \in DOMAIN last'.words} IN
       /\ last'.op = "add_sensitive_words" =>
             /\ sensitive_words' = sensitive_words \cup given
             /\ last'.log.n = Cardinality({w \in given : w \notin sensitive_words})
       /\ last'.op = "remove_sensitive_words" =>
             /\ sensitive_words' = sensitive_words \ given
             /\ last'.log.n = Cardinality({w \in given : w \in sensitive_words})]_vars

\* a list naming the same new word twice: one word added, one reported
C10_Witness ==
    /\ last.op = "add_sensitive_words"
    /\ last.words = << <<"a", "b">>, <<"a", "b">> >>
    /\ last.log.n = 1
    /\ sensitive_words = { <<"a">>, <<"a", "b">> }


\* C11: a second check_content of the same valid text, with no other call in
\* between, returns the same verdict, does not run the segmenter and leaves the
\* cache at the size the first call left it.  A call cuts the text exactly
\* when the text was not cached at its start, and leaves it cached
C11_RepeatedScreen ==
    /\ [](last.op = "check_content" /\ ~InvalidInput(last.text)
            => /\ last.text.s \in DOMAIN word_cache
               /\ (last.tok.cut <=> ~last.tok.hit))
    /\ [][(/\ last.op = "check_content"
            /\ last'.op = "check_content"
            /\ last'.text = last.text
            /\ ~InvalidInput(last.text))
           => /\ last'.ret = last.ret
              /\ ~last'.tok.cut
              /\ Cardinality(DOMAIN word_cache') = Cardinality(DOMAIN word_cache)]_vars

\* a call that found its text cached by an earlier call and reported reasons
C11_Witness ==
    /\ last.op = "check_content"
    /\ ~InvalidInput(last.text)
    /\ last.tok.hit
    /\ ~last.tok.cut
    /\ Len(last.ret.reasons) > 0

\* C12: clear_cache leaves the cache with no entry and leaves the vocabulary
\* and the rule dict as they were; a check_content of a valid text that comes
\* while the cache is still empty runs the segmenter and stores the entry for
\* that text again
C12_ClearCache ==
    /\ [][last'.op = "clear_cache"
          => /\ Cardinality(DOMAIN word_cache') = 0
             /\ sensitive_words' = sensitive_words
             /\ patterns' = patterns]_vars
    /\ [][(/\ word_cache = EmptyCache
           /\ last'.op = "check_content"
           /\ ~InvalidInput(last'.text))
          => /\ last'.tok.cut
             /\ DOMAIN word_cache' = {last'.text.s}
             /\ word_cache'[last'.text.s] = jieba_cut(last'.text.s)]_vars

\* a clear_cache that dropped at least two entries, with a rule added before
C12_Witness ==
    /\ last.op = "clear_cache"
    /\ last.log.n >= 2
    /\ word_cache = EmptyCache
    /\ Len(patterns) > Len(BuiltinPatterns)

\* C13: check_batch returns one result per text, in input order, each the
\* verdict check_content gives for that text; total is the number of texts and
\* inappropriate_count the number of results that are not appropriate; an
\* empty batch gives no result and both numbers 0
C13_Batch ==
    last.op = "check_batch"
    => /\ Len(last.results) = Len(last.texts)
       /\ \A i \in 1..Len(last.texts) :
             last.results[i] =
                 check_content(last.texts[i], sensitive_words, patterns, EmptyCache).ret
       /\ last.total = Len(last.texts)
       /\ last.inappropriate_count =
              Cardinality({i \in 1..Len(last.results) : ~last.results[i].b})
       /\ (Len(last.texts) = 0
           => last.results = <<>> /\ last.total = 0 /\ last.inappropriate_count = 0)

\* a batch of two different texts, the first found inappropriate, the second not
C13_Witness ==
    /\ last.op = "check_batch"
    /\ Len(last.texts) = 2
    /\ last.texts[1] # last.texts[2]
    /\ ~last.results[1].b
    /\ last.results[2].b
    /\ last.inappropriate_count = 1

\* a verdict of the except clause: not appropriate, one screening-error reason
ErrorVerdict(v) ==
    /\ ~v.b
    /\ Len(v.reasons) = 1
    /\ v.reasons[1].head = "screening error"

\* C14: an item of a batch that fails inside check_content costs the batch
\* nothing: no exception leaves check_content or check_batch, a returned batch
\* has one verdict per text, each either the single-reason screening-error
\* verdict or an ordinary verdict, and an item during which no other call
\* changed the registries gets the screening-error verdict or exactly the
\* verdict check_content computes for it
C14_ItemIsolation ==
    /\ [](pc # "raised")
    /\ [](last.op = "check_batch"
          => /\ Len(last.results) = Len(last.texts)
             /\ \A i \in 1..Len(last.results) :
                   \/ ErrorVerdict(last.results[i])
                   \/ /\ last.results[i].b = (last.results[i].reasons = <<>>)
                      /\ \A k \in 1..Len(last.results[i].reasons) :
                            last.results[i].reasons[k].head # "screening error"
                      /\ (InvalidInput(last.texts[i])
                          => last.results[i] = InvalidVerdict))
    /\ [][(/\ batch.on
           /\ pc # "batch_loop"
           /\ Len(batch'.results) = Len(batch.results) + 1
           /\ snaps = {<<sensitive_words, patterns>>})
          => LET v == batch'.results[Len(batch'.results)] IN
             \/ ErrorVerdict(v)
             \/ v = check_content(StrIn(cur.text), sensitive_words, patterns,
                                  EmptyCache).ret]_vars

\* a returned batch of two texts: the first ended in the except clause, the
\* second got the verdict an undisturbed check_content gives
C14_Witness ==
    /\ last.op = "check_batch"
    /\ Len(last.texts) = 2
    /\ ErrorVerdict(last.results[1])
    /\ ~ErrorVerdict(last.results[2])
    /\ last.results[2] =
           check_content(last.texts[2], sensitive_words, patterns, EmptyCache).ret
    /\ Len(last.results[2].reasons) > 1

\* C15: the word loop gives one reason per token position whose token is in
\* the vocabulary and merges nothing: the number of banned-word reasons is the
\* number of such positions, and a word that is k tokens of the text is named
\* by k reasons
C15_OnePerOccurrence ==
    (last.op = "check_content" /\ ~InvalidInput(last.text) /\ ~ErrorVerdict(last.ret))
    => LET tokens == jieba_cut(last.text.s)
           wr == SelectSeq(last.ret.reasons, IsWordReason)
       IN /\ Len(wr) = Cardinality({i \in 1..Len(tokens) : tokens[i] \in sensitive_words})
          /\ \A w \in WordUniverse :
                Cardinality({k \in 1..Len(wr) : wr[k].body = w}) =
                    IF w \in sensitive_words
                    THEN Cardinality({i \in 1..Len(tokens) : tokens[i] = w})
                    ELSE 0

\* a text with the same banned word at two token positions: two reasons for it
C15_Witness ==
    /\ last.op = "check_content"
    /\ ~InvalidInput(last.text)
    /\ \E w \in sensitive_words :
          /\ Cardinality({i \in 1..Len(jieba_cut(last.text.s)) :
                             jieba_cut(last.text.s)[i] = w}) = 2
          /\ Cardinality({k \in 1..Len(last.ret.reasons) :
                             last.ret.reasons[k] = WordReason(w)}) = 2

\* the source holds an array of strings, an object whose words field is an
\* array of strings, or readable lines of text
WordsInSource(src) ==
    \/ src.kind = "text"
    \/ /\ src.kind = "json"
       /\ \/ src.top = "list"
          \/ src.top = "dict" /\ src.key = "words" /\ src.val = "list"
       /\ \A k \in 1..Len(src.items) : src.items[k].t = "str"

\* C16: a filter built from a source that is absent, missing, unreadable,
\* unparsable or of any shape other than an array of strings or an object with
\* an array of strings under words has exactly the default vocabulary; built
\* from any other source it has exactly the words of the source
C16_Load ==
    last.op = "__init__"
    => sensitive_words =
           IF WordsInSource(last.source)
           THEN IF last.source.kind = "text"
                THEN {w \in {Strip(last.source.items[k].s) :
                                k \in 1..Len(last.source.items)} : w # <<>>}
                ELSE {last.source.items[k].s : k \in 1..Len(last.source.items)}
           ELSE DefaultWords

\* C17: a valid text shorter than 5 characters none of whose tokens is banned
\* and that no rule matches gets exactly the one reason "content too short"; a
\* text of 5 characters or more never gets that reason
C17_TooShort ==
    (last.op = "check_content" /\ ~InvalidInput(last.text) /\ ~ErrorVerdict(last.ret))
    => /\ (/\ Len(last.text.s) < 5
           /\ \A i \in 1..Len(jieba_cut(last.text.s)) :
                 jieba_cut(last.text.s)[i] \notin sensitive_words
           /\ \A k \in 1..Len(patterns) : Findall(patterns[k].src, last.text.s) = <<>>)
          => last.ret.reasons = <<ShortReason>>
       /\ Len(last.text.s) >= 5
          => \A k \in 1..Len(last.ret.reasons) : last.ret.reasons[k] # ShortReason

\* a three-character text with nothing banned in it and no rule matching it
C17_Witness ==
    /\ last.op = "check_content"
    /\ last.text = StrIn(<<"a", " ", "a">>)
    /\ <<"a">> \notin sensitive_words
    /\ \A k \in 1..Len(patterns) : Findall(patterns[k].src, last.text.s) = <<>>
    /\ last.ret = RetVerdict(FALSE, <<ShortReason>>)

\* C18: the cache maps a raw text to the token list the segmenter gave for
\* exactly that text; a check_content of a valid text adds the key that is the
\* text itself, unchanged, and nothing else; no call but clear_cache removes an
\* entry or changes the list stored under a key
C18_CacheEntries ==
    /\ [](\A t \in DOMAIN word_cache : word_cache[t] = jieba_cut(t))
    /\ [][\/ last'.op = "clear_cache"
          \/ \A t \in DOMAIN word_cache :
                t \in DOMAIN word_cache' /\ word_cache'[t] = word_cache[t]]_vars
    /\ [][last'.op = "check_content"
          => DOMAIN word_cache' =
                 DOMAIN word_cache \cup
                     (IF InvalidInput(last'.text) THEN {} ELSE {last'.text.s})]_vars

\* a cache with two entries, one of them for a text of blanks only, after a
\* check_content that found its text cached
C18_Witness ==
    /\ last.op = "check_content"
    /\ last.tok.hit
    /\ Cardinality(DOMAIN word_cache) >= 2
    /\ <<" ", " ", " ", " ", " ">> \in DOMAIN word_cache
    /\ word_cache[<<" ", " ", " ", " ", " ">>] = <<<<" ">>, <<" ">>, <<" ">>, <<" ">>, <<" ">>>>

\* C19: no statement of check_batch or of the check_content calls it makes
\* changes the vocabulary or the rule dict, whatever the item (an invalid one,
\* one that ends in the except clause) and wherever the call stands: every
\* step that is not a call of another caller leaves both as they were
C19_ScreenFrame ==
    [][muts' = muts
       => sensitive_words' = sensitive_words /\ patterns' = patterns]_vars

\* a returned batch with an invalid item and an item that ended in the except
\* clause; the rule another caller added during it is in the dict, the
\* vocabulary is the one the filter was built with
C19_Witness ==
    /\ last.op = "check_batch"
    /\ Len(last.texts) = 2
    /\ last.results[1] = InvalidVerdict
    /\ ErrorVerdict(last.results[2])
    /\ sensitive_words = DefaultWords
    /\ Len(patterns) = Len(BuiltinPatterns) + 1

RECURSIVE WholeFrom(_, _, _)
\* the non-overlapping matches of p in s from position i on, each as the whole
\* substring it covers
WholeFrom(p, s, i) ==
    IF i > Len(s) + 1 THEN <<>>
    ELSE IF MatchAt(p, s, i)
         THEN <<SubSeq(s, i, i + Len(p.atoms) - 1)>>
                  \o WholeFrom(p, s, IF Len(p.atoms) = 0 THEN i + 1 ELSE i + Len(p.atoms))
         ELSE WholeFrom(p, s, i + 1)

\* C20: for every rule of the dict, built in or added, the reasons that name
\* the rule are one per non-overlapping match of its pattern in the text, in
\* order, each carrying the whole substring that matched
C20_WholeMatch ==
    (last.op = "check_content" /\ ~InvalidInput(last.text) /\ ~ErrorVerdict(last.ret))
    => \A k \in 1..Len(patterns) :
          LET rr == SelectSeq(last.ret.reasons,
                              LAMBDA r : r.head = "contains" /\ r.label = patterns[k].name)
          IN [j \in 1..Len(rr) |-> rr[j].body] =
                 WholeFrom(Compile(patterns[k].src), last.text.s, 1)

\* the verdict of a filter that keeps no cache: the text is cut anew and
\* screened against the given vocabulary and rules
UncachedVerdict(text, vocab, d) ==
    LET reasons == Reasons(text.s, jieba_cut(text.s), vocab, d) IN
    RetVerdict(Len(reasons) = 0, reasons)

\* C21: whatever calls came before, the verdict of check_content for a valid
\* text is the verdict a filter without a cache gives for it against the
\* vocabulary and the rules as they are now; a text cached before an
\* add_sensitive_words or remove_sensitive_words call is screened against the
\* vocabulary that call left
C21_CacheTransparent ==
    /\ [](last.op = "check_content" /\ ~InvalidInput(last.text)
          => last.ret = UncachedVerdict(last.text, sensitive_words, patterns))
    /\ [][(/\ last.op \in {"add_sensitive_words", "remove_sensitive_words"}
           /\ last'.op = "check_content"
           /\ last'.tok.hit)
          => /\ ~last'.tok.cut
             /\ last'.ret = UncachedVerdict(last'.text, sensitive_words, patterns)]_vars

\* a text that was cached, then a word of it was added to the vocabulary, then
\* the text was screened again from the cache: the new word is reported
C21_Witness ==
    /\ last.op = "check_content"
    /\ last.tok.hit
    /\ roundtrip.stage = "rescreened"
    /\ ~roundtrip.was_member
    /\ \E k \in 1..Len(last.ret.reasons) : last.ret.reasons[k] = WordReason(roundtrip.word)

=============================================================================
